---- MODULE Spec2Model ----
(***************************************************************************)
(* Model of sagemaker-notebook.ipynb: one run of the notebook's cells in   *)
(* order (session and role set-up, handler files, model directory,         *)
(* compress, upload, deploy, sample predictions, delete), and the handler  *)
(* code/inference.py (predict_fn) that the deployed endpoint executes.     *)
(*                                                                         *)
(* Paths are sequences of names.  The filesystem is a function from the    *)
(* paths that exist to "dir" or "file".  Calls into the SDKs (sagemaker,   *)
(* boto3, huggingface_hub, transformers) and the operating system are the  *)
(* environment: each either returns or raises, chosen nondeterministically.*)
(***************************************************************************)
EXTENDS Integers, Sequences, FiniteSets, TLC

VARIABLES
    pc,                        \* the next statement of the notebook run
    log,                       \* the statements executed so far, with their outcome
    fs,                        \* filesystem: path -> "dir" | "file"
    cwd,                       \* process working directory (os.getcwd())
    sagemaker_session_bucket,  \* cell 1c22e8d5
    role,                      \* cell 1c22e8d5
    snapshot,                  \* names of the files of the hub snapshot downloaded
    parent_dir,                \* compress: local variable
    items,                     \* compress: entries of os.listdir('.') still to add
    tar,                       \* model.tar.gz: [state, members]
    s3,                        \* object storage: uri -> set of member names
    s3_model_uri,              \* result of S3Uploader.upload
    huggingface_model,         \* the HuggingFaceModel object
    endpoint,                  \* deployed resources: [model, endpoint, model_data, role]
    requests,                  \* prediction requests sent, each with the endpoint's state
    hpc,                       \* handler: the next statement of predict_fn
    payload,                   \* handler: the request as received (never changed)
    data,                      \* handler: the dict object `data` (mutated by pop)
    inputs,                    \* handler: local `inputs`, a value or the object `data`
    parameters,                \* handler: local `parameters`
    tokenizer_arg,             \* handler: the value handed to tokenizer(...)
    input_ids,                 \* handler: local `input_ids`
    generate_call,             \* handler: how model.generate was called
    outputs,                   \* handler: sequences generate returned
    result                     \* handler: the value predict_fn returned

nbVars == <<pc, log, fs, cwd, sagemaker_session_bucket, role, snapshot, parent_dir,
            items, tar, s3, s3_model_uri, huggingface_model, endpoint, requests>>
hVars == <<hpc, payload, data, inputs, parameters, tokenizer_arg, input_ids,
           generate_call, outputs, result>>
vars == <<pc, log, fs, cwd, sagemaker_session_bucket, role, snapshot, parent_dir,
          items, tar, s3, s3_model_uri, huggingface_model, endpoint, requests,
          hpc, payload, data, inputs, parameters, tokenizer_arg, input_ids,
          generate_call, outputs, result>>

None == "None"

----------------------------------------------------------------------------
(* Bounds *)

\* how many of the hub repository's files a snapshot may hold
MaxHubFiles == 2
\* how many sequences one generate call may return
MaxReturnSequences == 2

----------------------------------------------------------------------------
(* Paths and the filesystem *)

WorkDir == <<"work">>
TmpDir == <<"tmp">>

IsPrefix(p, q) == Len(p) <= Len(q) /\ SubSeq(q, 1, Len(p)) = p

\* q relative to its ancestor p
Rel(p, q) == SubSeq(q, Len(p) + 1, Len(q))

\* os.path.join(base, rel) for a relative path rel
Join(base, rel) == base \o rel

Exists(f, p) == p \in DOMAIN f
IsDir(f, p) == p \in DOMAIN f /\ f[p] = "dir"

\* os.listdir(p): the names of p's entries
ListDir(f, p) == {q[Len(q)] : q \in {r \in DOMAIN f : Len(r) = Len(p) + 1 /\ IsPrefix(p, r)}}

\* create or overwrite one entry
FsPut(f, p, kind) == [q \in DOMAIN f \cup {p} |-> IF q = p THEN kind ELSE f[q]]

\* remove p and everything under it
FsRemoveTree(f, p) == [q \in {r \in DOMAIN f : ~IsPrefix(p, r)} |-> f[q]]

\* distutils.dir_util.copy_tree(src, dst): dst is created, every entry under src is
\* copied to the same relative path under dst (overwriting), other entries of dst stay
CopyTree(f, src, dst) ==
    LET copied == {Join(dst, Rel(src, q)) : q \in {r \in DOMAIN f : IsPrefix(src, r)}}
    IN  [q \in DOMAIN f \cup copied |->
            IF q \in copied THEN f[Join(src, Rel(dst, q))] ELSE f[q]]

\* TarFile.add(name, arcname), recursive: the entry itself, then each entry of a
\* directory under os.path.join(arcname, entry)
RECURSIVE TarAdd(_, _, _)
TarAdd(f, name, arcname) ==
    {arcname} \cup
    IF IsDir(f, name)
    THEN UNION {TarAdd(f, Join(name, <<n>>), Join(arcname, <<n>>)) : n \in ListDir(f, name)}
    ELSE {}

----------------------------------------------------------------------------
(* Names the notebook uses *)

HF_MODEL_ID == <<"philschmid", "flan-t5-xxl-sharded-fp16">>

\* Path(HF_MODEL_ID.split("/")[-1])
model_tar_dir == <<HF_MODEL_ID[Len(HF_MODEL_ID)]>>

CodeDir == <<"code">>
output_file == "model.tar.gz"

\* the files of the hub repository (a flat list of files, as the notebook shows)
HubNames == <<"config.json", "tokenizer.json", "spiece.model", "special_tokens_map.json">>
HubFiles == {HubNames[i] : i \in 1..MaxHubFiles}

\* the directory snapshot_download returns, inside the temporary cache directory
SnapshotDir == Join(TmpDir, <<"snapshots">>)

\* S3Uploader.upload returns desired_s3_uri + "/" + the file's name
S3Uri(bucket) == <<"s3", bucket, "flan-t5-xxl", output_file>>

\* the exception classes get_execution_role may raise
RoleErrors == {"ValueError", "ClientError"}

\* `except ValueError:`
\* (variants: no except clause; a bare `except:`)
CaughtNothing(exc) == FALSE
CaughtAnything(exc) == TRUE
Caught(exc) == exc = "ValueError"

\* tar.add(item, arcname=item)
\* (variant: arcname=os.path.join(tar_dir, item))
ArcNameUnderTarDir(tar_dir, item) == Join(tar_dir, <<item>>)
ArcName(tar_dir, item) == <<item>>

\* model_tar_dir.joinpath("code")
\* (variant: code/ copied into the model directory itself)
CodeDestFlat(dir) == dir
CodeDest(dir) == Join(dir, <<"code">>)

\* HuggingFaceModel(model_data=s3_model_uri, ...)
\* (variant: the local file name instead of the uploaded object's URI)
ModelDataLocalPath(uri) == <<output_file>>
ModelData(uri) == uri

\* tarfile.open(os.path.join(parent_dir, output_file), "w:gz")
ArchivePath(parent, tar_dir) == Join(parent, <<output_file>>)

----------------------------------------------------------------------------
(* The log of executed statements *)

Entry(step, outcome, exc) == [step |-> step, outcome |-> outcome, exc |-> exc]

\* the statement returned
Ok(step) == log' = Append(log, Entry(step, "ok", None))

\* the statement raised and nothing catches it: the run ends
Raise(step, exc) ==
    /\ pc' = "failed"
    /\ log' = Append(log, Entry(step, "raised", exc))

----------------------------------------------------------------------------
(* The notebook run: session and role *)

\* !pip install ...: a shell command; a failure is printed, nothing is raised
PipInstall ==
    /\ pc = "pip_install"
    /\ \E outcome \in {"ok", "shell_error"} :
          log' = Append(log, Entry("pip_install", outcome, None))
    /\ pc' = "session"
    /\ UNCHANGED <<fs, cwd, sagemaker_session_bucket, role, snapshot, parent_dir, items,
                   tar, s3, s3_model_uri, huggingface_model, endpoint, requests>>
    /\ UNCHANGED hVars

\* sess = sagemaker.Session(); sagemaker_session_bucket = sess.default_bucket()
Session ==
    /\ pc = "session"
    /\ \/ /\ Ok("session")
          /\ sagemaker_session_bucket' = "default-bucket"
          /\ pc' = "get_execution_role"
       \/ /\ Raise("session", "ClientError")
          /\ UNCHANGED sagemaker_session_bucket
    /\ UNCHANGED <<fs, cwd, role, snapshot, parent_dir, items, tar, s3, s3_model_uri,
                   huggingface_model, endpoint, requests>>
    /\ UNCHANGED hVars

\* try: role = sagemaker.get_execution_role()  except ValueError: ...
GetExecutionRole ==
    /\ pc = "get_execution_role"
    /\ \/ /\ Ok("get_execution_role")
          /\ role' = "execution-role-arn"
          /\ pc' = "session2"
       \/ \E exc \in RoleErrors :
             /\ UNCHANGED role
             /\ IF Caught(exc)
                THEN /\ log' = Append(log, Entry("get_execution_role", "raised", exc))
                     /\ pc' = "iam_get_role"
                ELSE Raise("get_execution_role", exc)
    /\ UNCHANGED <<fs, cwd, sagemaker_session_bucket, snapshot, parent_dir, items, tar,
                   s3, s3_model_uri, huggingface_model, endpoint, requests>>
    /\ UNCHANGED hVars

\* iam = boto3.client('iam'); role = iam.get_role(RoleName='sagemaker_execution_role')['Role']['Arn']
IamGetRole ==
    /\ pc = "iam_get_role"
    /\ \/ /\ Ok("iam_get_role")
          /\ role' = "arn-of-sagemaker_execution_role"
          /\ pc' = "session2"
       \/ /\ Raise("iam_get_role", "ClientError")
          /\ UNCHANGED role
    /\ UNCHANGED <<fs, cwd, sagemaker_session_bucket, snapshot, parent_dir, items, tar,
                   s3, s3_model_uri, huggingface_model, endpoint, requests>>
    /\ UNCHANGED hVars

\* sess = sagemaker.Session(default_bucket=sagemaker_session_bucket); print(... sess.default_bucket())
Session2 ==
    /\ pc = "session2"
    /\ \/ /\ Ok("session2")
          /\ pc' = "mkdir_code"
       \/ Raise("session2", "ClientError")
    /\ UNCHANGED <<fs, cwd, sagemaker_session_bucket, role, snapshot, parent_dir, items,
                   tar, s3, s3_model_uri, huggingface_model, endpoint, requests>>
    /\ UNCHANGED hVars

----------------------------------------------------------------------------
(* The notebook run: the handler files and the model directory *)

\* !mkdir code: a shell command; when code/ exists it prints an error, nothing is raised
MkdirCode ==
    /\ pc = "mkdir_code"
    /\ IF Exists(fs, Join(cwd, CodeDir))
       THEN /\ log' = Append(log, Entry("mkdir_code", "shell_error", None))
            /\ UNCHANGED fs
       ELSE /\ Ok("mkdir_code")
            /\ fs' = FsPut(fs, Join(cwd, CodeDir), "dir")
    /\ pc' = "write_requirements"
    /\ UNCHANGED <<cwd, sagemaker_session_bucket, role, snapshot, parent_dir, items, tar,
                   s3, s3_model_uri, huggingface_model, endpoint, requests>>
    /\ UNCHANGED hVars

\* %%writefile code/requirements.txt
WriteRequirements ==
    /\ pc = "write_requirements"
    /\ \/ /\ IsDir(fs, Join(cwd, CodeDir))
          /\ Ok("write_requirements")
          /\ fs' = FsPut(fs, Join(cwd, Join(CodeDir, <<"requirements.txt">>)), "file")
          /\ pc' = "write_inference"
       \/ /\ Raise("write_requirements", "OSError")
          /\ UNCHANGED fs
    /\ UNCHANGED <<cwd, sagemaker_session_bucket, role, snapshot, parent_dir, items, tar,
                   s3, s3_model_uri, huggingface_model, endpoint, requests>>
    /\ UNCHANGED hVars

\* %%writefile code/inference.py
WriteInference ==
    /\ pc = "write_inference"
    /\ \/ /\ IsDir(fs, Join(cwd, CodeDir))
          /\ Ok("write_inference")
          /\ fs' = FsPut(fs, Join(cwd, Join(CodeDir, <<"inference.py">>)), "file")
          /\ pc' = "mkdir_model"
       \/ /\ Raise("write_inference", "OSError")
          /\ UNCHANGED fs
    /\ UNCHANGED <<cwd, sagemaker_session_bucket, role, snapshot, parent_dir, items, tar,
                   s3, s3_model_uri, huggingface_model, endpoint, requests>>
    /\ UNCHANGED hVars

\* Path.mkdir() with its default exist_ok=False: an existing path is rejected
\* (variant: mkdir(exist_ok=True))
MkdirExistOk(f, p) == FALSE
MkdirRejects(f, p) == Exists(f, p)

\* model_tar_dir.mkdir(): raises FileExistsError when the directory exists
MkdirModel ==
    /\ pc = "mkdir_model"
    /\ IF MkdirRejects(fs, Join(cwd, model_tar_dir))
       THEN /\ Raise("mkdir_model", "FileExistsError")
            /\ UNCHANGED fs
       ELSE \/ /\ Ok("mkdir_model")
               /\ fs' = FsPut(fs, Join(cwd, model_tar_dir), "dir")
               /\ pc' = "snapshot_download"
            \/ /\ Raise("mkdir_model", "OSError")
               /\ UNCHANGED fs
    /\ UNCHANGED <<cwd, sagemaker_session_bucket, role, snapshot, parent_dir, items, tar,
                   s3, s3_model_uri, huggingface_model, endpoint, requests>>
    /\ UNCHANGED hVars

\* with TemporaryDirectory() as tmpdir: snapshot_dir = snapshot_download(repo_id, cache_dir=tmpdir)
\* (a failure leaves the with block, which removes the temporary directory)
SnapshotDownload ==
    /\ pc = "snapshot_download"
    /\ \/ \E files \in (SUBSET HubFiles) \ {{}} :
             /\ Ok("snapshot_download")
             /\ snapshot' = files
             /\ fs' = [q \in DOMAIN fs \cup {SnapshotDir}
                                       \cup {Join(SnapshotDir, <<n>>) : n \in files} |->
                         IF q \in DOMAIN fs THEN fs[q]
                         ELSE IF q = SnapshotDir THEN "dir" ELSE "file"]
             /\ pc' = "copy_snapshot"
       \/ /\ Raise("snapshot_download", "HTTPError")
          /\ UNCHANGED <<fs, snapshot>>
    /\ UNCHANGED <<cwd, sagemaker_session_bucket, role, parent_dir, items, tar, s3,
                   s3_model_uri, huggingface_model, endpoint, requests>>
    /\ UNCHANGED hVars

\* copy_tree(snapshot_dir, str(model_tar_dir)), then the with block ends and the
\* temporary directory is removed (also when copy_tree raises)
CopySnapshot ==
    /\ pc = "copy_snapshot"
    /\ \/ /\ Ok("copy_snapshot")
          /\ fs' = FsRemoveTree(CopyTree(fs, SnapshotDir, Join(cwd, model_tar_dir)),
                                SnapshotDir)
          /\ pc' = "copy_code"
       \/ /\ Raise("copy_snapshot", "DistutilsFileError")
          /\ fs' = FsRemoveTree(fs, SnapshotDir)
    /\ UNCHANGED <<cwd, sagemaker_session_bucket, role, snapshot, parent_dir, items, tar,
                   s3, s3_model_uri, huggingface_model, endpoint, requests>>
    /\ UNCHANGED hVars

\* copy_tree("code/", str(model_tar_dir.joinpath("code")))
CopyCode ==
    /\ pc = "copy_code"
    /\ \/ /\ IsDir(fs, Join(cwd, CodeDir))
          /\ Ok("copy_code")
          /\ fs' = CopyTree(fs, Join(cwd, CodeDir), Join(cwd, CodeDest(model_tar_dir)))
          /\ pc' = "compress_chdir"
       \/ /\ Raise("copy_code", "DistutilsFileError")
          /\ UNCHANGED fs
    /\ UNCHANGED <<cwd, sagemaker_session_bucket, role, snapshot, parent_dir, items, tar,
                   s3, s3_model_uri, huggingface_model, endpoint, requests>>
    /\ UNCHANGED hVars

----------------------------------------------------------------------------
(* The notebook run: compress(str(model_tar_dir)) *)

\* parent_dir=os.getcwd(); os.chdir(tar_dir)
CompressChdir ==
    /\ pc = "compress_chdir"
    /\ parent_dir' = cwd
    /\ IF IsDir(fs, Join(cwd, model_tar_dir))
       THEN /\ Ok("compress_chdir")
            /\ cwd' = Join(cwd, model_tar_dir)
            /\ pc' = "compress_open"
       ELSE /\ Raise("compress_chdir", "FileNotFoundError")
            /\ UNCHANGED cwd
    /\ UNCHANGED <<fs, sagemaker_session_bucket, role, snapshot, items, tar, s3,
                   s3_model_uri, huggingface_model, endpoint, requests>>
    /\ UNCHANGED hVars

\* with tarfile.open(os.path.join(parent_dir, output_file), "w:gz") as tar:
\*     for item in os.listdir('.'):
CompressOpen ==
    /\ pc = "compress_open"
    /\ \/ /\ Ok("compress_open")
          /\ fs' = FsPut(fs, ArchivePath(parent_dir, model_tar_dir), "file")
          /\ tar' = [state |-> "open", members |-> {}]
          /\ items' = ListDir(fs', cwd)
          /\ pc' = "compress_add"
       \/ /\ Raise("compress_open", "OSError")
          /\ UNCHANGED <<fs, tar, items>>
    /\ UNCHANGED <<cwd, sagemaker_session_bucket, role, snapshot, parent_dir, s3,
                   s3_model_uri, huggingface_model, endpoint, requests>>
    /\ UNCHANGED hVars

\* tar.add(item, arcname=item) for one item of the listing; when it raises, the with
\* block closes the file without finishing the archive
CompressAdd ==
    /\ pc = "compress_add"
    /\ \E item \in items :
          \/ /\ Exists(fs, Join(cwd, <<item>>))
             /\ Ok("compress_add")
             /\ tar' = [tar EXCEPT !.members =
                           @ \cup TarAdd(fs, Join(cwd, <<item>>), ArcName(model_tar_dir, item))]
             /\ items' = items \ {item}
             /\ pc' = "compress_add"
          \/ /\ Raise("compress_add", "OSError")
             /\ tar' = [tar EXCEPT !.state = "broken"]
             /\ UNCHANGED items
    /\ UNCHANGED <<fs, cwd, sagemaker_session_bucket, role, snapshot, parent_dir, s3,
                   s3_model_uri, huggingface_model, endpoint, requests>>
    /\ UNCHANGED hVars

\* the for loop is over: the with block ends and the archive is closed
CompressClose ==
    /\ pc = "compress_add"
    /\ items = {}
    /\ \/ /\ Ok("compress_close")
          /\ tar' = [tar EXCEPT !.state = "closed"]
          /\ pc' = "compress_chdir_back"
       \/ /\ Raise("compress_close", "OSError")
          /\ tar' = [tar EXCEPT !.state = "broken"]
    /\ UNCHANGED <<fs, cwd, sagemaker_session_bucket, role, snapshot, parent_dir, items,
                   s3, s3_model_uri, huggingface_model, endpoint, requests>>
    /\ UNCHANGED hVars

\* os.chdir(parent_dir)
CompressChdirBack ==
    /\ pc = "compress_chdir_back"
    /\ Ok("compress_chdir_back")
    /\ cwd' = parent_dir
    /\ pc' = "upload"
    /\ UNCHANGED <<fs, sagemaker_session_bucket, role, snapshot, parent_dir, items, tar,
                   s3, s3_model_uri, huggingface_model, endpoint, requests>>
    /\ UNCHANGED hVars

----------------------------------------------------------------------------
(* The notebook run: upload, deploy, predict, delete *)

\* s3_model_uri = S3Uploader.upload(local_path="model.tar.gz", desired_s3_uri=...)
Upload ==
    /\ pc = "upload"
    /\ \/ /\ Exists(fs, Join(cwd, <<output_file>>))
          /\ Ok("upload")
          /\ s3' = [u \in DOMAIN s3 \cup {S3Uri(sagemaker_session_bucket)} |->
                      IF u = S3Uri(sagemaker_session_bucket)
                      THEN [members |-> tar.members, complete |-> tar.state = "closed"]
                      ELSE s3[u]]
          /\ s3_model_uri' = S3Uri(sagemaker_session_bucket)
          /\ pc' = "create_model"
       \/ /\ Raise("upload", "ClientError")
          /\ UNCHANGED <<s3, s3_model_uri>>
    /\ UNCHANGED <<fs, cwd, sagemaker_session_bucket, role, snapshot, parent_dir, items,
                   tar, huggingface_model, endpoint, requests>>
    /\ UNCHANGED hVars

\* huggingface_model = HuggingFaceModel(model_data=s3_model_uri, role=role, ...)
CreateModel ==
    /\ pc = "create_model"
    /\ Ok("create_model")
    /\ huggingface_model' = [model_data |-> ModelData(s3_model_uri), role |-> role]
    /\ pc' = "deploy"
    /\ UNCHANGED <<fs, cwd, sagemaker_session_bucket, role, snapshot, parent_dir, items,
                   tar, s3, s3_model_uri, endpoint, requests>>
    /\ UNCHANGED hVars

\* predictor = huggingface_model.deploy(initial_instance_count=1, instance_type="ml.g5.xlarge")
Deploy ==
    /\ pc = "deploy"
    /\ \/ /\ Ok("deploy")
          /\ endpoint' = [model |-> "live", endpoint |-> "live",
                          model_data |-> huggingface_model.model_data,
                          role |-> huggingface_model.role]
          /\ pc' = "predict1"
       \/ /\ Raise("deploy", "ClientError")
          /\ UNCHANGED endpoint
    /\ UNCHANGED <<fs, cwd, sagemaker_session_bucket, role, snapshot, parent_dir, items,
                   tar, s3, s3_model_uri, huggingface_model, requests>>
    /\ UNCHANGED hVars

\* predictor.predict({"inputs": payload, "parameters": parameters}), the n-th sample
Predict(n, step, next) ==
    /\ pc = step
    /\ requests' = Append(requests, [n |-> n, model |-> endpoint.model,
                                     endpoint |-> endpoint.endpoint])
    /\ \/ /\ Ok(step)
          /\ pc' = next
       \/ Raise(step, "ModelError")
    /\ UNCHANGED <<fs, cwd, sagemaker_session_bucket, role, snapshot, parent_dir, items,
                   tar, s3, s3_model_uri, huggingface_model, endpoint>>
    /\ UNCHANGED hVars

Predict1 == Predict(1, "predict1", "predict2")

Predict2 == Predict(2, "predict2", "delete_model")

\* predictor.delete_model()
DeleteModel ==
    /\ pc = "delete_model"
    /\ \/ /\ Ok("delete_model")
          /\ endpoint' = [endpoint EXCEPT !.model = "deleted"]
          /\ pc' = "delete_endpoint"
       \/ /\ Raise("delete_model", "ClientError")
          /\ UNCHANGED endpoint
    /\ UNCHANGED <<fs, cwd, sagemaker_session_bucket, role, snapshot, parent_dir, items,
                   tar, s3, s3_model_uri, huggingface_model, requests>>
    /\ UNCHANGED hVars

\* the run without the call predictor.delete_endpoint()
DeleteEndpointOmitted ==
    /\ pc = "delete_endpoint"
    /\ pc' = "done"
    /\ UNCHANGED <<log, fs, cwd, sagemaker_session_bucket, role, snapshot, parent_dir,
                   items, tar, s3, s3_model_uri, huggingface_model, endpoint, requests>>
    /\ UNCHANGED hVars

\* predictor.delete_endpoint()
DeleteEndpoint ==
    /\ pc = "delete_endpoint"
    /\ \/ /\ Ok("delete_endpoint")
          /\ endpoint' = [endpoint EXCEPT !.endpoint = "deleted"]
          /\ pc' = "done"
       \/ /\ Raise("delete_endpoint", "ClientError")
          /\ UNCHANGED endpoint
    /\ UNCHANGED <<fs, cwd, sagemaker_session_bucket, role, snapshot, parent_dir, items,
                   tar, s3, s3_model_uri, huggingface_model, requests>>
    /\ UNCHANGED hVars

----------------------------------------------------------------------------
(* code/inference.py: values *)

\* A JSON value is [t |-> type, v |-> value]: "str", "null" or "dict".  A dict is a
\* function from its keys to its values.
Str(x) == [t |-> "str", v |-> x]
Null == [t |-> "null", v |-> None]
Dict(m) == [t |-> "dict", v |-> m]

\* the local `inputs` refers to the object `data` itself (no copy is made)
Ref == [t |-> "ref", v |-> "data"]

EmptyMap == [k \in {} |-> None]

\* d without key k (what dict.pop leaves behind)
Without(d, k) == [j \in DOMAIN d \ {k} |-> d[j]]

\* the value a name stands for: the object `data` as it is now, or the value itself
Deref(x, d) == IF x.t = "ref" THEN Dict(d) ELSE x

\* the request payloads: a JSON object with or without "inputs" (a string or null),
\* "parameters" (null or a mapping of generation arguments) and another key
Prompts == {"Summarize the following text", "Answer the following question"}
ParamKeys == {"max_new_tokens", "num_return_sequences", "inputs"}
ParamValues == 1..MaxReturnSequences
ParamMaps == UNION {[ks -> ParamValues] : ks \in SUBSET ParamKeys}

Payloads ==
    {[k \in ks |-> CASE k = "inputs" -> i
                     [] k = "parameters" -> p
                     [] OTHER -> Str("x")] :
        ks \in SUBSET {"inputs", "parameters", "options"},
        i \in {Null} \cup {Str(text) : text \in Prompts},
        p \in {Null} \cup {Dict(m) : m \in ParamMaps}}

\* tokens
SpecialTokens == {"<pad>", "</s>"}
IsSpecial(tok) == tok \in SpecialTokens

\* tokenizer(text, return_tensors="pt").input_ids: the text's tokens and the end token
Encode(text) == <<text, "</s>">>

\* tokenizer.decode(ids, skip_special_tokens=True)
Decode(ids) == SelectSeq(ids, LAMBDA tok : ~IsSpecial(tok))

\* the name of the first parameter of transformers' generate(self, inputs=None, ...)
GenerateFirstParameter == "inputs"

\* the sequences model.generate may return
GeneratedSequences ==
    {<<"<pad>", "Peter", "stayed", "</s>">>, <<"<pad>", "He", "has", "11", "</s>", "<pad>">>}
GenerateOutputs == UNION {[1..n -> GeneratedSequences] : n \in 1..MaxReturnSequences}

----------------------------------------------------------------------------
(* code/inference.py: predict_fn(data, model_and_tokenizer) *)

\* the default of data.pop("inputs", data)
\* (variant: the default is a copy of data, as it is when pop is called)
InputsDefaultCopy(d) == Dict(d)
InputsDefault(d) == Ref

\* the keyword arguments of model.generate(input_ids, **parameters)
\* (variant: one of the arguments is dropped)
KwArgsWithoutNumReturn(p) == [k \in DOMAIN p \ {"num_return_sequences"} |-> p[k]]
KwArgs(p) == p

\* tokenizer.decode(outputs[0], skip_special_tokens=True)
\* (variant: outputs[-1])
PredictionOfLast(outs) == Decode(outs[Len(outs)])
Prediction(outs) == Decode(outs[1])

\* return [{"generated_text": prediction}]
Response(prediction) == <<[generated_text |-> prediction]>>

\* inputs = data.pop("inputs", data)
PopInputs ==
    /\ hpc = "pop_inputs"
    /\ IF "inputs" \in DOMAIN data
       THEN /\ inputs' = data["inputs"]
            /\ data' = Without(data, "inputs")
       ELSE /\ inputs' = InputsDefault(data)
            /\ UNCHANGED data
    /\ hpc' = "pop_parameters"
    /\ UNCHANGED <<payload, parameters, tokenizer_arg, input_ids, generate_call, outputs,
                   result>>
    /\ UNCHANGED nbVars

\* parameters = data.pop("parameters", None)
PopParameters ==
    /\ hpc = "pop_parameters"
    /\ IF "parameters" \in DOMAIN data
       THEN /\ parameters' = data["parameters"]
            /\ data' = Without(data, "parameters")
       ELSE /\ parameters' = Null
            /\ UNCHANGED data
    /\ hpc' = "tokenize"
    /\ UNCHANGED <<payload, inputs, tokenizer_arg, input_ids, generate_call, outputs,
                   result>>
    /\ UNCHANGED nbVars

\* input_ids = tokenizer(inputs, return_tensors="pt").input_ids
\* (the tokenizer raises ValueError for an argument that is not text)
Tokenize ==
    /\ hpc = "tokenize"
    /\ tokenizer_arg' = Deref(inputs, data)
    /\ IF tokenizer_arg'.t = "str"
       THEN /\ input_ids' = Encode(tokenizer_arg'.v)
            /\ hpc' = "generate"
       ELSE /\ UNCHANGED input_ids
            /\ hpc' = "raised_tokenizer"
    /\ UNCHANGED <<payload, data, inputs, parameters, generate_call, outputs, result>>
    /\ UNCHANGED nbVars

\* if parameters is not None: outputs = model.generate(input_ids, **parameters)
\* else: outputs = model.generate(input_ids)
\* input_ids is bound to generate's first parameter, which is named inputs: a keyword
\* argument of that name makes the call raise TypeError and generate is not entered
Generate ==
    /\ hpc = "generate"
    /\ LET kwargs == IF parameters # Null THEN KwArgs(parameters.v) ELSE EmptyMap
       IN  IF GenerateFirstParameter \in DOMAIN kwargs
           THEN /\ UNCHANGED <<generate_call, outputs>>
                /\ hpc' = "raised_generate"
           ELSE /\ generate_call' = [called |-> TRUE, input_ids |-> input_ids,
                                     kwargs |-> kwargs]
                /\ \/ \E outs \in GenerateOutputs :
                         /\ outputs' = outs
                         /\ hpc' = "decode"
                   \/ /\ UNCHANGED outputs
                      /\ hpc' = "raised_generate"
    /\ UNCHANGED <<payload, data, inputs, parameters, tokenizer_arg, input_ids, result>>
    /\ UNCHANGED nbVars

\* prediction = tokenizer.decode(outputs[0], skip_special_tokens=True)
\* return [{"generated_text": prediction}]
Return ==
    /\ hpc = "decode"
    /\ result' = Response(Prediction(outputs))
    /\ hpc' = "returned"
    /\ UNCHANGED <<payload, data, inputs, parameters, tokenizer_arg, input_ids,
                   generate_call, outputs>>
    /\ UNCHANGED nbVars

----------------------------------------------------------------------------
(* The run as a whole *)

HandlerIdle ==
    /\ hpc = "idle"
    /\ payload = EmptyMap
    /\ data = EmptyMap
    /\ inputs = Null
    /\ parameters = Null
    /\ tokenizer_arg = Null
    /\ input_ids = <<>>
    /\ generate_call = [called |-> FALSE, input_ids |-> <<>>, kwargs |-> EmptyMap]
    /\ outputs = <<>>
    /\ result = <<>>

\* what an earlier run may have left in the working directory: code/, empty or with a
\* file of its own, and the model directory
NoEntries == [q \in {} |-> "dir"]
LeftoverCode ==
    {NoEntries,
     [q \in {Join(WorkDir, CodeDir)} |-> "dir"],
     [q \in {Join(WorkDir, CodeDir), Join(WorkDir, Join(CodeDir, <<"utils.py">>))} |->
         IF q = Join(WorkDir, CodeDir) THEN "dir" ELSE "file"]}
LeftoverModelDir ==
    {NoEntries,
     [q \in {Join(WorkDir, model_tar_dir)} |-> "dir"],
     [q \in {Join(WorkDir, model_tar_dir),
             Join(WorkDir, Join(model_tar_dir, <<HubNames[1]>>))} |->
         IF q = Join(WorkDir, model_tar_dir) THEN "dir" ELSE "file"]}

\* the state before the first statement, with the entries `old` in the working directory
Fresh(start, old) ==
    /\ pc = start
    /\ log = <<>>
    /\ cwd = WorkDir
    /\ fs = [q \in {WorkDir, TmpDir} \cup DOMAIN old |->
                IF q \in DOMAIN old THEN old[q] ELSE "dir"]
    /\ sagemaker_session_bucket = None
    /\ role = None
    /\ snapshot = {}
    /\ parent_dir = <<>>
    /\ items = {}
    /\ tar = [state |-> "none", members |-> {}]
    /\ s3 = [u \in {} |-> {}]
    /\ s3_model_uri = <<>>
    /\ huggingface_model = [model_data |-> <<>>, role |-> None]
    /\ endpoint = [model |-> "none", endpoint |-> "none", model_data |-> <<>>, role |-> None]
    /\ requests = <<>>

NotebookStart ==
    \E c \in LeftoverCode, m \in LeftoverModelDir :
        Fresh("pip_install", c @@ m)

Init == NotebookStart /\ HandlerIdle

Next ==
    \/ PipInstall
    \/ Session
    \/ GetExecutionRole
    \/ IamGetRole
    \/ Session2
    \/ MkdirCode
    \/ WriteRequirements
    \/ WriteInference
    \/ MkdirModel
    \/ SnapshotDownload
    \/ CopySnapshot
    \/ CopyCode
    \/ CompressChdir
    \/ CompressOpen
    \/ CompressAdd
    \/ CompressClose
    \/ CompressChdirBack
    \/ Upload
    \/ CreateModel
    \/ Deploy
    \/ Predict1
    \/ Predict2
    \/ DeleteModel
    \/ DeleteEndpoint

Spec == Init /\ [][Next]_vars

\* the cells run one after the other until one raises or the last one returns
FairSpec == Init /\ [][Next]_vars /\ WF_vars(Next)

----------------------------------------------------------------------------
(* The handler on its own: predict_fn called with any request payload *)

HandlerCalled ==
    /\ hpc = "pop_inputs"
    /\ payload \in Payloads
    /\ data = payload
    /\ inputs = Null
    /\ parameters = Null
    /\ tokenizer_arg = Null
    /\ input_ids = <<>>
    /\ generate_call = [called |-> FALSE, input_ids |-> <<>>, kwargs |-> EmptyMap]
    /\ outputs = <<>>
    /\ result = <<>>

HandlerInit == Fresh("serving", NoEntries) /\ HandlerCalled

HandlerNext ==
    \/ PopInputs
    \/ PopParameters
    \/ Tokenize
    \/ Generate
    \/ Return

HandlerSpec == HandlerInit /\ [][HandlerNext]_vars

----------------------------------------------------------------------------
(* What the claims speak of *)

\* the model directory, and the paths of its entries relative to it
ModelDir == Join(WorkDir, model_tar_dir)
ModelDirEntries == {Rel(ModelDir, q) : q \in {r \in DOMAIN fs : IsPrefix(ModelDir, r) /\ r # ModelDir}}

\* the steps of the log, in order
Steps == {log[i].step : i \in 1..Len(log)}
Returned(step) == \E i \in 1..Len(log) : log[i].step = step /\ log[i].outcome = "ok"

\* compress has been entered and left (by return or by an exception)
CompressExited ==
    /\ "compress_chdir" \in Steps
    /\ pc \notin {"compress_open", "compress_add", "compress_chdir_back"}

----------------------------------------------------------------------------
(* C1 *)

\* C1: every member of model.tar.gz is named by its path relative to tar_dir: while the
\* archive is written its members are relative paths of entries of the model directory,
\* and once it is closed every top-level entry of the directory is a top-level member,
\* every entry below it is a member, and no member name starts with the name of tar_dir
\* or of the directory enclosing it.
C1_MembersRelativeToTarDir ==
    /\ tar.members \subseteq ModelDirEntries
    /\ \A m \in tar.members : m[1] \notin {model_tar_dir[1], WorkDir[1]}
    /\ tar.state = "closed" =>
          /\ \A n \in ListDir(fs, ModelDir) : <<n>> \in tar.members
          /\ tar.members = ModelDirEntries

\* a closed archive with a top-level file and a nested member
C1_Witness ==
    /\ tar.state = "closed"
    /\ \E m \in tar.members : Len(m) = 1 /\ m[1] \in snapshot
    /\ \E m \in tar.members : Len(m) = 2

----------------------------------------------------------------------------
(* C2, C3, C10: predict_fn *)

HasInputsString == "inputs" \in DOMAIN payload /\ payload["inputs"].t = "str"

\* the parameters mapping of the request, empty when the request has none
RequestParameters ==
    IF "parameters" \in DOMAIN payload /\ payload["parameters"].t = "dict"
    THEN payload["parameters"].v
    ELSE EmptyMap

\* C2: for a payload with an `inputs` string, what predict_fn returns is a list of
\* exactly one element, a mapping whose only key is generated_text and whose value is
\* the first generated sequence without its special tokens, whatever the parameters
\* are and however many sequences generate returned.
C2_SingleGeneratedText ==
    (hpc = "returned" /\ HasInputsString) =>
        /\ Len(result) = 1
        /\ DOMAIN result[1] = {"generated_text"}
        /\ result[1].generated_text = SelectSeq(outputs[1], LAMBDA tok : tok \notin SpecialTokens)

\* predict_fn returned after generate yielded two different sequences for a request
\* that asked for two
C2_Witness ==
    /\ hpc = "returned"
    /\ HasInputsString
    /\ "num_return_sequences" \in DOMAIN RequestParameters
    /\ Len(outputs) = 2
    /\ outputs[1] # outputs[2]
    /\ Len(result) = 1

\* C3: whenever generate is entered it has received exactly the keyword arguments of
\* the request's parameters mapping, none added, dropped or renamed, `inputs` is not
\* among them, its positional argument is the tokenized `inputs` of the request, and
\* for a request without a parameters key it has no keyword argument at all.
C3_ParametersPassedThrough ==
    generate_call.called =>
        /\ generate_call.kwargs = RequestParameters
        /\ "inputs" \notin DOMAIN generate_call.kwargs
        /\ generate_call.input_ids = Encode(payload["inputs"].v)
        /\ "parameters" \notin DOMAIN payload => generate_call.kwargs = EmptyMap

\* generate was called for a request whose parameters mapping has two keys, neither of
\* them inputs
C3_Witness ==
    /\ generate_call.called
    /\ DOMAIN RequestParameters = {"max_new_tokens", "num_return_sequences"}
    /\ generate_call.kwargs = RequestParameters

\* C10: predict_fn itself never raises before the tokenizer is called; a payload without
\* an `inputs` key reaches the tokenizer as the payload mapping without its parameters
\* key, and a payload with an `inputs` key reaches it as exactly that value.
C10_TokenizerArgument ==
    /\ hpc \in {"pop_inputs", "pop_parameters", "tokenize", "generate", "decode",
                "returned", "raised_tokenizer", "raised_generate"}
    /\ hpc \notin {"pop_inputs", "pop_parameters", "tokenize"} =>
          tokenizer_arg = IF "inputs" \in DOMAIN payload
                          THEN payload["inputs"]
                          ELSE Dict(Without(payload, "parameters"))

\* the tokenizer was handed a payload that had parameters and another key but no inputs
C10_Witness ==
    /\ hpc = "raised_tokenizer"
    /\ DOMAIN payload = {"parameters", "options"}
    /\ tokenizer_arg = Dict([k \in {"options"} |-> payload[k]])

----------------------------------------------------------------------------
(* C4: the role-resolution fallback *)

\* get_execution_role raised an exception of class exc
RoleResolutionRaised(exc) ==
    \E i \in 1..Len(log) :
        log[i] = Entry("get_execution_role", "raised", exc)

\* the IAM lookup follows the failed resolution, and its result is the role
FellBack ==
    /\ pc # "iam_get_role" => "iam_get_role" \in Steps
    /\ Returned("iam_get_role") => role = "arn-of-sagemaker_execution_role"

\* without a failed resolution there is no IAM lookup and the role is the resolved one
NoFallback ==
    Returned("get_execution_role") =>
        /\ "iam_get_role" \notin Steps
        /\ pc # "iam_get_role"
        /\ role = "execution-role-arn"

\* C4 as stated: whenever get_execution_role fails, the IAM role named
\* sagemaker_execution_role is looked up and its ARN becomes `role`; when it succeeds
\* the lookup is never performed and `role` is the resolved role.
C4_AsStated ==
    /\ (\E exc \in RoleErrors : RoleResolutionRaised(exc)) => FellBack
    /\ NoFallback

\* C4 (amended): whenever get_execution_role fails with a ValueError, the IAM role
\* named sagemaker_execution_role is looked up and its ARN becomes `role`; when it
\* succeeds the lookup is never performed and `role` is the resolved role.
C4_FallbackOnValueError ==
    /\ RoleResolutionRaised("ValueError") => FellBack
    /\ NoFallback

\* the run went on with the looked-up role after a ValueError
C4_Witness ==
    /\ RoleResolutionRaised("ValueError")
    /\ Returned("iam_get_role")
    /\ role = "arn-of-sagemaker_execution_role"
    /\ pc = "mkdir_code"

----------------------------------------------------------------------------
(* C5: the order of the steps *)

\* the statements of the notebook in the order of its cells
StepOrder ==
    <<"pip_install", "session", "get_execution_role", "iam_get_role", "session2",
      "mkdir_code", "write_requirements", "write_inference", "mkdir_model",
      "snapshot_download", "copy_snapshot", "copy_code", "compress_chdir",
      "compress_open", "compress_add", "compress_close", "compress_chdir_back",
      "upload", "create_model", "deploy", "predict1", "predict2", "delete_model",
      "delete_endpoint">>
Rank(step) == CHOOSE i \in 1..Len(StepOrder) : StepOrder[i] = step

\* the weights and the handler code are in the model directory
ModelDirReady ==
    /\ snapshot # {}
    /\ \A n \in snapshot : <<n>> \in ModelDirEntries
    /\ {<<"code", "inference.py">>, <<"code", "requirements.txt">>} \subseteq ModelDirEntries

\* C5: the statements run in the order of the cells; the archive exists only once the
\* weights and the handler code are in the model directory; what was uploaded is the
\* closed archive; deploy is called with the URI the upload returned; every prediction
\* request went to an endpoint that was live; and nothing is deleted before both
\* sample predictions have returned.
C5_StepsInOrder ==
    /\ \A i, j \in 1..Len(log) : i < j => Rank(log[i].step) <= Rank(log[j].step)
    /\ tar.state # "none" => ModelDirReady
    /\ s3_model_uri # <<>> =>
          /\ s3_model_uri \in DOMAIN s3
          /\ s3[s3_model_uri].complete
    /\ "deploy" \in Steps =>
          /\ s3_model_uri # <<>>
          /\ huggingface_model.model_data = s3_model_uri
    /\ endpoint.endpoint # "none" => endpoint.model_data = s3_model_uri
    /\ \A k \in 1..Len(requests) :
          requests[k].endpoint = "live" /\ requests[k].model = "live"
    /\ ("delete_model" \in Steps \/ "delete_endpoint" \in Steps
           \/ endpoint.model = "deleted" \/ endpoint.endpoint = "deleted") =>
          Returned("predict1") /\ Returned("predict2")

\* the whole run: every step from the download to the deletion has returned
C5_Witness ==
    /\ pc = "done"
    /\ Returned("copy_snapshot") /\ Returned("copy_code") /\ Returned("compress_close")
    /\ Returned("upload") /\ Returned("deploy")
    /\ Len(requests) = 2
    /\ endpoint.endpoint = "deleted"

----------------------------------------------------------------------------
(* C6: tearing the endpoint down *)

Deployed == endpoint.endpoint # "none"
TornDown == endpoint.model = "deleted" /\ endpoint.endpoint = "deleted"

----------------------------------------------------------------------------
(* C7: what the uploaded archive holds *)

HandlerFiles == {"inference.py", "requirements.txt"}

\* C7: the uploaded archive holds every file of the hub snapshot as a top-level member
\* and the handler files as code/inference.py and code/requirements.txt and nowhere
\* else, lacks no entry of the model directory, and has no member that is the archive
\* file itself.
C7_UploadedArchiveContents ==
    s3_model_uri # <<>> =>
        LET members == s3[s3_model_uri].members
        IN  /\ snapshot # {}
            /\ \A n \in snapshot : <<n>> \in members
            /\ \A n \in HandlerFiles : <<"code", n>> \in members
            /\ \A m \in members : m[Len(m)] \in HandlerFiles => m = <<"code", m[Len(m)]>>
            /\ ModelDirEntries \subseteq members
            /\ \A m \in members : Join(ModelDir, m) # Join(parent_dir, <<output_file>>)

\* an uploaded archive of a snapshot of two files: the two files, code/ and its two files
C7_Witness ==
    /\ s3_model_uri # <<>>
    /\ Cardinality(snapshot) = 2
    /\ Cardinality(s3[s3_model_uri].members) = 5

----------------------------------------------------------------------------
(* C8: failures propagate *)

\* C8: an exception ends the run at the statement that raised it, so a raised entry is
\* the last of the log and the run has failed; the one exception is the ValueError of
\* get_execution_role, which is followed by the IAM lookup.  No statement is run a
\* second time (only the loop body of compress repeats, once per item, and only after
\* it returned).
C8_FailuresPropagate ==
    /\ \A i \in 1..Len(log) :
          log[i].outcome = "raised" =>
              \/ i = Len(log) /\ pc = "failed"
              \/ /\ log[i] = Entry("get_execution_role", "raised", "ValueError")
                 /\ IF i = Len(log) THEN pc = "iam_get_role"
                    ELSE log[i + 1].step = "iam_get_role"
    /\ pc = "failed" => Len(log) > 0 /\ log[Len(log)].outcome = "raised"
    /\ \A i, j \in 1..Len(log) :
          (i < j /\ log[i].step = log[j].step) =>
              log[i].step = "compress_add" /\ log[i].outcome = "ok"

\* after the fallback was taken, a later statement raised and the run ended there
C8_Witness ==
    /\ RoleResolutionRaised("ValueError")
    /\ Returned("iam_get_role")
    /\ pc = "failed"
    /\ log[Len(log)] = Entry("deploy", "raised", "ClientError")

----------------------------------------------------------------------------
(* C9: compress and the working directory *)

\* C9: on every exit from compress, by return or by an exception, the working
\* directory is the one that was current when compress was called.
C9_CwdRestored ==
    CompressExited => cwd = parent_dir

----------------------------------------------------------------------------
(* C11: an existing model directory *)

\* the model directory and what is in it
ModelDirTree(f) == [q \in {r \in DOMAIN f : IsPrefix(ModelDir, r)} |-> f[q]]

\* the model directory exists and this run has not reached model_tar_dir.mkdir() yet:
\* it is left over from before the run
ModelDirLeftOver == Exists(fs, ModelDir) /\ "mkdir_model" \notin Steps

\* the statements from the download on
AfterMkdirModel ==
    {"snapshot_download", "copy_snapshot", "copy_code", "compress_chdir", "compress_open",
     "compress_add", "compress_chdir_back", "upload", "create_model", "deploy",
     "predict1", "predict2", "delete_model", "delete_endpoint", "done"}

\* C11: while the model directory is one left over from before the run, no step changes
\* it or anything in it, no step goes on to the download or beyond, and
\* model_tar_dir.mkdir() raises FileExistsError, which ends the run with nothing
\* archived or uploaded.
C11_ExistingModelDirUntouched ==
    [][ModelDirLeftOver =>
          /\ ModelDirTree(fs') = ModelDirTree(fs)
          /\ pc' \notin AfterMkdirModel
          /\ tar' = tar /\ s3' = s3 /\ snapshot' = snapshot
          /\ pc = "mkdir_model" =>
                /\ pc' = "failed"
                /\ log' = Append(log, Entry("mkdir_model", "raised", "FileExistsError"))]_vars

\* the run ended at model_tar_dir.mkdir() with the left-over directory and its file
\* still there and nothing downloaded, archived or uploaded
C11_Witness ==
    /\ pc = "failed"
    /\ log[Len(log)] = Entry("mkdir_model", "raised", "FileExistsError")
    /\ IsDir(fs, ModelDir)
    /\ Exists(fs, Join(ModelDir, <<HubNames[1]>>))
    /\ snapshot = {} /\ tar.state = "none" /\ s3_model_uri = <<>>

====
